---- MODULE Spec2Model ----
(***************************************************************************)
(* Water-quality prediction service: the prediction engine                 *)
(* (inference/predictor.py), its validator (utils/data_validator.py), the  *)
(* serving application's global predictor (app.py) and the trainer's       *)
(* artifact persistence (train/trainer.py).                                *)
(*                                                                         *)
(* Feature values are fixed-point numbers in tenths (pH 6.5 is 65);        *)
(* probabilities are fixed-point numbers in hundredths (0.75 is 75).       *)
(***************************************************************************)
EXTENDS Integers, Sequences, FiniteSets, TLC

(* ------------------------------------------------------------------ *)
(* Bounds of the model                                                   *)
(* ------------------------------------------------------------------ *)

\* WaterQualityPredictor instances alive at once: the global predictor, the one
\* a call in flight still holds, the one under construction
MaxInst == 3

\* training runs of the trainer process in one behaviour
MaxTrain == 1

\* longest batch handed to predict_batch
MaxBatch == 2

(* ------------------------------------------------------------------ *)
(* Floating-point values                                                 *)
(* ------------------------------------------------------------------ *)

\* float('nan'), float('inf'), float('-inf') among the fixed-point values
NaN == -9999999

PosInf == 9999999

NegInf == -9999998

IsNaN(x) == x = NaN

IsInf(x) == x = PosInf \/ x = NegInf

\* IEEE comparisons: every comparison with NaN is false
Ge(a, b) == ~IsNaN(a) /\ ~IsNaN(b) /\ a >= b

Le(a, b) == ~IsNaN(a) /\ ~IsNaN(b) /\ a <= b

Lt(a, b) == ~IsNaN(a) /\ ~IsNaN(b) /\ a < b

Gt(a, b) == ~IsNaN(a) /\ ~IsNaN(b) /\ a > b

Min2(a, b) == IF a <= b THEN a ELSE b

Max2(a, b) == IF a >= b THEN a ELSE b

(* ------------------------------------------------------------------ *)
(* Feature schema                                                        *)
(* ------------------------------------------------------------------ *)

NumFeatures == 9

CanonicalNames == <<"pH", "Hardness", "Solids", "Chloramines", "Sulfate",
                    "Conductivity", "Organic_carbon", "Trihalomethanes", "Turbidity">>

\* a features.pkl whose list is shorter than the schema (tests/test_predictor.py:61)
ShortNames == <<"pH", "Hardness">>

\* a features.pkl listing the nine names in another order
PermutedNames == <<"Turbidity", "Hardness", "Solids", "Chloramines", "Sulfate",
                   "Conductivity", "Organic_carbon", "Trihalomethanes", "pH">>

PH_MAX == 140

\* the sample record of the tests: [7.0,200.0,20000.0,7.0,300.0,500.0,15.0,80.0,4.0]
Rec(ph, hardness, turbidity) ==
    <<ph, hardness, 200000, 70, 3000, 5000, 150, 800, turbidity>>

\* nums: the numbers the text of the message shows, literal or formatted in
ValueError(msg, nums) == [exc |-> "ValueError", msg |-> msg, nums |-> nums]

NoError == [exc |-> "none", msg |-> "", nums |-> {}]

\* PredictionInput(...): every field required, pH ge=0 le=14, the others ge=0
PredictionInputOK(vals) ==
    /\ Len(vals) = NumFeatures
    /\ Ge(vals[1], 0) /\ Le(vals[1], PH_MAX)
    /\ \A i \in 2..NumFeatures : Ge(vals[i], 0)

\* PredictionInput.to_array: the fields in declaration order, as one row
to_array(vals) == vals

(* ------------------------------------------------------------------ *)
(* utils/data_validator.py: validate_inference_data                      *)
(* ------------------------------------------------------------------ *)

\* the per-index (minimum, typical maximum) table
feature_ranges ==
    <<  <<0, 140>>, <<0, 10000>>, <<0, 500000>>, <<0, 200>>, <<0, 10000>>,
        <<0, 20000>>, <<0, 500>>, <<0, 2000>>, <<0, 200>> >>

\* a validator that also rejects values above the typical maximum
validate_inference_data_strict(features, feature_names) ==
    IF Len(features) # Len(feature_names)
    THEN ValueError("Expected {len(feature_names)} features, got {features.shape[1]}",
                    {Len(feature_names), Len(features)})
    ELSE IF \E i \in 1..Len(features) : IsNaN(features[i])
    THEN ValueError("Features contain NaN values", {})
    ELSE IF \E i \in 1..Len(features) : IsInf(features[i])
    THEN ValueError("Features contain infinite values", {})
    ELSE IF \E i \in 1..Len(feature_ranges) :
               /\ i <= Len(features)
               /\ \/ Lt(features[i], feature_ranges[i][1])
                  \/ Gt(features[i], feature_ranges[i][2])
    THEN ValueError("Feature {feature_names[i]} has values below minimum ({min_val})", {0})
    ELSE NoError

\* the error validate_inference_data raises on one row, or NoError
validate_inference_data(features, feature_names) ==
    IF Len(features) # Len(feature_names)
    THEN ValueError("Expected {len(feature_names)} features, got {features.shape[1]}",
                    {Len(feature_names), Len(features)})
    ELSE IF \E i \in 1..Len(features) : IsNaN(features[i])
    THEN ValueError("Features contain NaN values", {})
    ELSE IF \E i \in 1..Len(features) : IsInf(features[i])
    THEN ValueError("Features contain infinite values", {})
    ELSE IF \E i \in 1..Len(feature_ranges) :
               i <= Len(features) /\ Lt(features[i], feature_ranges[i][1])
    THEN ValueError("Feature {feature_names[i]} has values below minimum ({min_val})", {0})
    ELSE NoError

\* the indexes validate_inference_data logs a "above typical maximum" warning for
inference_warnings(features) ==
    { i \in 1..Len(feature_ranges) :
        i <= Len(features) /\ Gt(features[i], feature_ranges[i][2]) }

(* ------------------------------------------------------------------ *)
(* utils/data_validator.py: validate_training_data                       *)
(* ------------------------------------------------------------------ *)
\* A DataFrame is described by what the checks read: the number of rows whose
\* Potability is 0, 1 or something else, whether the Potability column exists,
\* and per feature column its dtype, its count of nulls and the smallest and
\* largest of its non-null values.
Column(numeric, nulls, min, max) ==
    [numeric |-> numeric, nulls |-> nulls, min |-> min, max |-> max]

DataFrame(n0, n1, nOther, target, cols) ==
    [n0 |-> n0, n1 |-> n1, nOther |-> nOther, target |-> target, cols |-> cols]

MIN_SAMPLES == 100

MIN_PER_CLASS == 10

\* the training table with the typical maxima of the inference table
training_feature_ranges_typical(feature) ==
    feature_ranges[CHOOSE j \in 1..Len(CanonicalNames) : CanonicalNames[j] = feature]

\* lines 58-68: (min, max) by feature name
training_feature_ranges(feature) ==
    IF feature = "pH" THEN <<0, PH_MAX>> ELSE <<0, PosInf>>

\* lines 70-79 for one feature: the error raised, or NoError
training_range_error(feature, col) ==
    LET min_val == training_feature_ranges(feature)[1]
        max_val == training_feature_ranges(feature)[2]
    IN  IF Lt(col.min, min_val)
        THEN ValueError("Feature '{feature}' has values below minimum ({min_val})",
                        {min_val})
        ELSE IF max_val # PosInf /\ Gt(col.max, max_val)
        THEN ValueError("Feature '{feature}' has values above maximum ({max_val})",
                        {max_val \div 10})
        ELSE NoError

\* the error validate_training_data raises, or NoError
validate_training_data(data, expected_features) ==
    LET rows == data.n0 + data.n1 + data.nOther
        idx == 1..Len(expected_features)
        missing_columns ==
            { expected_features[i] : i \in { k \in idx :
                                        expected_features[k] \notin DOMAIN data.cols } }
              \cup (IF data.target THEN {} ELSE {"Potability"})
        \* value_counts lists only the classes that occur
        class_counts == { c \in {data.n0, data.n1} : c > 0 }
        col(i) == data.cols[expected_features[i]]
        first(S) == CHOOSE i \in S : \A k \in S : i <= k
        non_numeric == { i \in idx : ~col(i).numeric }
        too_many_missing == { i \in idx : 2 * col(i).nulls > rows }
        out_of_range ==
            { i \in idx : training_range_error(expected_features[i], col(i)) # NoError }
    IN  IF rows = 0 THEN ValueError("Training data is empty", {})
        ELSE IF missing_columns # {}
        THEN ValueError("Missing required columns: {missing_columns}", {})
        ELSE IF data.nOther > 0
        THEN ValueError("Target column 'Potability' must contain only 0 and 1 values",
                        {0, 1})
        ELSE IF rows < MIN_SAMPLES
        THEN ValueError("Training data must have at least 100 samples", {MIN_SAMPLES})
        ELSE IF \E c \in class_counts : c < MIN_PER_CLASS
        THEN ValueError("Each class must have at least 10 samples", {MIN_PER_CLASS})
        ELSE IF non_numeric # {}
        THEN ValueError("Feature '{feature}' must be numeric", {})
        ELSE IF too_many_missing # {}
        THEN ValueError("Feature '{feature}' has too many missing values ({missing_ratio:.2%})",
                        {(100 * col(first(too_many_missing)).nulls) \div rows})
        ELSE IF out_of_range # {}
        THEN training_range_error(expected_features[first(out_of_range)],
                                  col(first(out_of_range)))
        ELSE NoError

\* class sizes around the thresholds 100 and 10
ClassZeroRows == {0, 5, 9, 10, 90, 100}

ClassOneRows == {0, 5, 9, 10, 90}

\* (min, max) of the non-null pH values and of the non-null Hardness values
PHSpans == { <<65, 85>>, <<0, 140>>, <<-1, 85>>, <<65, 141>>, <<-1, 141>> }

HardnessSpans ==
    { <<0, 3000>>, <<-5, 3000>>, <<1000, 5000000>>, <<0, PosInf>>, <<NegInf, 3000>> }

\* nulls of the pH column: none, exactly half of the rows, two thirds of them
NullCounts(rows) == { 0, rows \div 2, (2 * rows) \div 3 }

TrainingColumns(numeric, nulls, ph, hardness, dropped) ==
    [ name \in { CanonicalNames[i] : i \in 1..Len(CanonicalNames) } \ dropped |->
        IF name = "pH" THEN Column(TRUE, nulls, ph[1], ph[2])
        ELSE IF name = "Hardness" THEN Column(numeric, 0, hardness[1], hardness[2])
        ELSE Column(TRUE, 0, 10, 1000) ]

TrainingSetsOf(n0, n1, nOther) ==
    { DataFrame(n0, n1, nOther, target,
                TrainingColumns(numeric, nulls, ph, hardness, dropped)) :
        target \in BOOLEAN, numeric \in BOOLEAN,
        nulls \in NullCounts(n0 + n1 + nOther),
        ph \in PHSpans, hardness \in HardnessSpans,
        dropped \in { {}, {"Turbidity"} } }

(* ------------------------------------------------------------------ *)
(* MockModel and MockScaler, the fallback pair                           *)
(* ------------------------------------------------------------------ *)

PH_LOW == 65

PH_HIGH == 85

TURBIDITY_MAX == 50

BASE_PROB == 50

PH_BONUS == 25

TURBIDITY_BONUS == 15

PROB_FLOOR == 1

PROB_CEIL == 99

ONE == 100

\* x[8] if len(x) > 8 else 5.0
MockTurbidity(x) == IF Len(x) > 8 THEN x[9] ELSE TURBIDITY_MAX

\* a rule that calls the water safe when either condition is met
MockModel_predict_either(x) ==
    IF (Le(PH_LOW, x[1]) /\ Le(x[1], PH_HIGH)) \/ Le(MockTurbidity(x), TURBIDITY_MAX)
    THEN 1 ELSE 0

\* MockModel.predict on one row
MockModel_predict(x) ==
    IF Le(PH_LOW, x[1]) /\ Le(x[1], PH_HIGH) /\ Le(MockTurbidity(x), TURBIDITY_MAX)
    THEN 1 ELSE 0

\* a predict_proba whose pH test excludes the two end points
MockModel_predict_proba_strict(x) ==
    LET b0 == BASE_PROB
        b1 == IF Lt(PH_LOW, x[1]) /\ Lt(x[1], PH_HIGH) THEN b0 + PH_BONUS ELSE b0
        b2 == IF Le(MockTurbidity(x), TURBIDITY_MAX) THEN b1 + TURBIDITY_BONUS ELSE b1
        safe_prob == Min2(PROB_CEIL, Max2(PROB_FLOOR, b2))
    IN  <<ONE - safe_prob, safe_prob>>

\* MockModel.predict_proba on one row: [unsafe_prob, safe_prob]
MockModel_predict_proba(x) ==
    LET b0 == BASE_PROB
        b1 == IF Le(PH_LOW, x[1]) /\ Le(x[1], PH_HIGH) THEN b0 + PH_BONUS ELSE b0
        b2 == IF Le(MockTurbidity(x), TURBIDITY_MAX) THEN b1 + TURBIDITY_BONUS ELSE b1
        safe_prob == Min2(PROB_CEIL, Max2(PROB_FLOOR, b2))
    IN  <<ONE - safe_prob, safe_prob>>

\* MockScaler.transform: np.array(X, dtype=float)
MockScaler_transform(x) == x

(* ------------------------------------------------------------------ *)
(* Objects: classifiers and scalers                                      *)
(* ------------------------------------------------------------------ *)

\* an object by its type name, the training run that fitted it (0: not fitted)
\* and, for a classifier, its classes_ attribute
Obj(kind, run, classes) == [kind |-> kind, run |-> run, classes |-> classes]

NoneObj == Obj("NoneType", 0, <<>>)

MockModel == Obj("MockModel", 0, <<0, 1>>)

MockScaler == Obj("MockScaler", 0, <<>>)

\* grid_search.best_estimator_ of training run r
RandomForest(r, classes) == Obj("RandomForestClassifier", r, classes)

\* the StandardScaler preprocess_data fits in training run r
StandardScaler(r) == Obj("StandardScaler", r, <<>>)

\* The fitted estimators are opaque library objects; each training run gets a
\* deterministic stand-in: the scaler of run r centres pH on 60 + 5r (tenths) and
\* the other features on the sample record, and the forest of run r votes 80/20
\* for "safe" when the centred pH is within 1.5 of its centre.
ScalerCentre(r) == Rec(60 + 5 * r, 2000, 40)

StandardScaler_transform(r, x) == [i \in 1..Len(x) |-> x[i] - ScalerCentre(r)[i]]

\* predict_proba of a fitted forest on one scaled row: one entry per class
RandomForest_predict_proba(m, z) ==
    IF Len(m.classes) = 1 THEN <<ONE>>
    ELSE LET p1 == IF z[1] >= -15 /\ z[1] <= 15 THEN 80 ELSE 20
         IN  <<ONE - p1, p1>>

\* predict of a fitted forest: classes_[argmax(predict_proba)]
RandomForest_predict(m, z) ==
    LET p == RandomForest_predict_proba(m, z)
    IN  IF Len(p) = 1 THEN m.classes[1]
        ELSE IF p[2] > p[1] THEN m.classes[2] ELSE m.classes[1]

\* scaler.transform(features) for whichever scaler object is installed
transform(scaler, x) ==
    IF scaler.kind = "MockScaler" THEN MockScaler_transform(x)
    ELSE StandardScaler_transform(scaler.run, x)

\* model.predict(features_scaled)[0]
model_predict(model, z) ==
    IF model.kind = "MockModel" THEN MockModel_predict(z)
    ELSE RandomForest_predict(model, z)

\* model.predict_proba(features_scaled)[0]
model_predict_proba(model, z) ==
    IF model.kind = "MockModel" THEN MockModel_predict_proba(z)
    ELSE RandomForest_predict_proba(model, z)

(* ------------------------------------------------------------------ *)
(* predict: lines 168-182, from the classifier's answer to the output    *)
(* ------------------------------------------------------------------ *)

SeqMax(s) == CHOOSE m \in {s[i] : i \in 1..Len(s)} : \A i \in 1..Len(s) : s[i] <= m

\* probabilities[1] if len(probabilities) > 1 else probabilities[0]
probability_of(probabilities) ==
    IF Len(probabilities) > 1 THEN probabilities[2] ELSE probabilities[1]

\* a confidence that repeats the probability of the positive class
confidence_of_positive(probabilities) == probability_of(probabilities)

\* max(probabilities) if len(probabilities) > 1 else probabilities[0]
confidence_of(probabilities) ==
    IF Len(probabilities) > 1 THEN SeqMax(probabilities) ELSE probabilities[1]

\* "Safe" if prediction == 1 else "Not Safe"
result_of(prediction) == IF prediction = 1 THEN "Safe" ELSE "Not Safe"

\* PredictionOutput(...)
PredictionOutput(prediction, probabilities, model_version, feature_names) ==
    [ prediction    |-> prediction,
      probability   |-> probability_of(probabilities),
      confidence    |-> confidence_of(probabilities),
      result        |-> result_of(prediction),
      model_version |-> model_version,
      features_used |-> feature_names ]

(* ------------------------------------------------------------------ *)
(* State                                                                 *)
(* ------------------------------------------------------------------ *)

VARIABLES
    disk,       \* the model directory: model.pkl, scaler.pkl, features.pkl
    heap,       \* the WaterQualityPredictor instances, by identity
    predictor,  \* app.py's global predictor: an instance identity, 0 for None
    ld,         \* the thread running __init__ / load_model
    cl,         \* the thread running a client call (predict, predict_batch, ...)
    tr,         \* the trainer process
    fn          \* a direct call of one function, as the unit tests make them

vars == <<disk, heap, predictor, ld, cl, tr, fn>>

\* a direct call: the function's name, its argument and what it returned
Call(name, arg, value) == [name |-> name, arg |-> arg, value |-> value]

NoCall == Call("none", <<>>, <<>>)

\* a pickled object on disk
File(st, obj) == [st |-> st, obj |-> obj]

AbsentFile == File("absent", NoneObj)

CorruptFile == File("corrupt", NoneObj)

\* features.pkl
NamesFile(st, names) == [st |-> st, names |-> names]

\* feature_names = None
NoneNames == <<>>

\* the attributes of one WaterQualityPredictor
Engine(model, scaler, feature_names, model_version, is_loaded) ==
    [ model |-> model, scaler |-> scaler, feature_names |-> feature_names,
      model_version |-> model_version, is_loaded |-> is_loaded ]

\* __init__, lines 68-73
NewEngine == Engine(NoneObj, NoneObj, NoneNames, "1.0.0", FALSE)

\* a fallback that fills in only the attributes still unset
initialize_fallback_model_unset(e) ==
    [e EXCEPT !.model = IF @ = NoneObj THEN MockModel ELSE @,
              !.scaler = IF @ = NoneObj THEN MockScaler ELSE @,
              !.feature_names = CanonicalNames, !.model_version = "fallback-1.0.0"]

\* _initialize_fallback_model applied to engine e
initialize_fallback_model(e) ==
    [e EXCEPT !.model = MockModel, !.scaler = MockScaler,
              !.feature_names = CanonicalNames, !.model_version = "fallback-1.0.0"]

InstIds == 1..MaxInst

\* the instances something still refers to; the others are freed
Referenced(p, l, c) == {p, l.self, c.self} \ {0}

Collect(h, p, l, c) ==
    [i \in InstIds |-> IF i \in Referenced(p, l, c) THEN h[i] ELSE NewEngine]

FreeIds == InstIds \ Referenced(predictor, ld, cl)

(* ------------------------------------------------------------------ *)
(* The thread running __init__ / load_model                              *)
(* ------------------------------------------------------------------ *)

\* mode "ctor": load_model called by __init__ on the instance being constructed;
\* mode "direct": load_model called on the live instance.
\* pre: the instance's attributes when load_model was entered; got*: what
\* joblib.load returned; why: the line load_model left by.
LdIdle ==
    [ pc |-> "idle", mode |-> "none", self |-> 0, ret |-> FALSE, pre |-> NewEngine,
      gotModel |-> NoneObj, gotScaler |-> NoneObj, gotNames |-> NoneNames,
      why |-> "none" ]

LdEnter(mode, self, pre) ==
    [LdIdle EXCEPT !.pc = "l92", !.mode = mode, !.self = self, !.pre = pre]

\* lifespan startup (app.py:87) and POST /model/reload (app.py:328) construct a
\* new instance: __init__ lines 68-73, then load_model is entered
construct_begin ==
    /\ ld.pc = "idle"
    /\ FreeIds # {}
    /\ LET id == CHOOSE i \in FreeIds : \A j \in FreeIds : i <= j
       IN  /\ heap' = [heap EXCEPT ![id] = NewEngine]
           /\ ld' = LdEnter("ctor", id, NewEngine)
    /\ UNCHANGED <<fn, disk, predictor, cl, tr>>

\* load_model() called on the live instance
load_model_begin ==
    /\ ld.pc = "idle"
    /\ predictor # 0
    /\ ld' = LdEnter("direct", predictor, heap[predictor])
    /\ UNCHANGED <<fn, disk, heap, predictor, cl, tr>>

\* line 92: both model.pkl and scaler.pkl must exist
load_model_exists ==
    /\ ld.pc = "l92"
    /\ IF disk.model.st # "absent" /\ disk.scaler.st # "absent"
       THEN ld' = [ld EXCEPT !.pc = "l96"]
       ELSE ld' = [ld EXCEPT !.pc = "ret", !.ret = FALSE, !.why = "not found"]
    /\ UNCHANGED <<fn, disk, heap, predictor, cl, tr>>

\* line 96: self.model = joblib.load(model_path)
load_model_model ==
    /\ ld.pc = "l96"
    /\ IF disk.model.st = "ok"
       THEN /\ heap' = [heap EXCEPT ![ld.self].model = disk.model.obj]
            /\ ld' = [ld EXCEPT !.pc = "l97", !.gotModel = disk.model.obj]
       ELSE /\ heap' = heap
            /\ ld' = [ld EXCEPT !.pc = "ret", !.ret = FALSE, !.why = "model.pkl"]
    /\ UNCHANGED <<fn, disk, predictor, cl, tr>>

\* line 97: self.scaler = joblib.load(scaler_path)
load_model_scaler ==
    /\ ld.pc = "l97"
    /\ IF disk.scaler.st = "ok"
       THEN /\ heap' = [heap EXCEPT ![ld.self].scaler = disk.scaler.obj]
            /\ ld' = [ld EXCEPT !.pc = "l100", !.gotScaler = disk.scaler.obj]
       ELSE /\ heap' = heap
            /\ ld' = [ld EXCEPT !.pc = "ret", !.ret = FALSE, !.why = "scaler.pkl"]
    /\ UNCHANGED <<fn, disk, predictor, cl, tr>>

\* a load that swallows an unreadable features.pkl and uses the canonical list
load_model_features_lenient ==
    /\ ld.pc = "l100"
    /\ LET names == IF disk.features.st = "ok" THEN disk.features.names
                    ELSE CanonicalNames
       IN  /\ heap' = [heap EXCEPT ![ld.self].feature_names = names,
                                   ![ld.self].is_loaded = TRUE]
           /\ ld' = [ld EXCEPT !.pc = "ret", !.ret = TRUE, !.why = "loaded",
                               !.gotNames = names]
    /\ UNCHANGED <<fn, disk, predictor, cl, tr>>

\* lines 100-111: feature names from features.pkl or the canonical list, then
\* is_loaded = True and return True
load_model_features ==
    /\ ld.pc = "l100"
    /\ IF disk.features.st = "corrupt"
       THEN /\ heap' = heap
            /\ ld' = [ld EXCEPT !.pc = "ret", !.ret = FALSE, !.why = "features.pkl"]
       ELSE LET names == IF disk.features.st = "ok" THEN disk.features.names
                         ELSE CanonicalNames
            IN  /\ heap' = [heap EXCEPT ![ld.self].feature_names = names,
                                        ![ld.self].is_loaded = TRUE]
                /\ ld' = [ld EXCEPT !.pc = "ret", !.ret = TRUE, !.why = "loaded",
                                    !.gotNames = names]
    /\ UNCHANGED <<fn, disk, predictor, cl, tr>>

\* load_model returns to __init__ (lines 76-78): the fallback pair is installed
\* when it returned False; the caller then binds the global predictor
construct_end ==
    /\ ld.pc = "ret" /\ ld.mode = "ctor"
    /\ predictor' = ld.self
    /\ ld' = [ld EXCEPT !.pc = "done"]
    /\ heap' = Collect([heap EXCEPT ![ld.self] =
                           IF ld.ret THEN @ ELSE initialize_fallback_model(@)],
                       predictor', ld', cl)
    /\ UNCHANGED <<fn, disk, cl, tr>>

\* load_model returns to its caller
load_model_end ==
    /\ ld.pc = "ret" /\ ld.mode = "direct"
    /\ ld' = [ld EXCEPT !.pc = "done"]
    /\ UNCHANGED <<fn, disk, heap, predictor, cl, tr>>

\* the thread is free for its next call
loader_idle ==
    /\ ld.pc = "done"
    /\ ld' = LdIdle
    /\ heap' = Collect(heap, predictor, ld', cl)
    /\ UNCHANGED <<fn, disk, predictor, cl, tr>>

(* ------------------------------------------------------------------ *)
(* Inputs of the client calls                                            *)
(* ------------------------------------------------------------------ *)

\* an argument of predict: a list, a dict (its values in key order; a shorter
\* sequence is a dict with keys missing) or a PredictionInput object
Input(form, vals) == [form |-> form, vals |-> vals]

SafeRec == Rec(70, 2000, 40)

\* the FeatureRecord invariant: 9 finite values, pH in [0,14], the others >= 0
FeatureRecordOK(vals) ==
    /\ Len(vals) = NumFeatures
    /\ \A i \in 1..Len(vals) : ~IsNaN(vals[i]) /\ ~IsInf(vals[i])
    /\ vals[1] >= 0 /\ vals[1] <= PH_MAX
    /\ \A i \in 2..Len(vals) : vals[i] >= 0

ListInputs ==
    { Input("list", v) : v \in
        { SafeRec, Rec(90, 2000, 40), Rec(70, 2000, 51), Rec(85, 20000, 250),
          Rec(0, 0, 0), Rec(150, 2000, 40), Rec(70, -2000, 40),
          Rec(70, PosInf, 40), Rec(NaN, 2000, 40), <<70, 2000, 200000>> } }

DictInputs ==
    { Input("dict", v) : v \in { Rec(65, 2000, 50), Rec(-10, 2000, 40), <<70, 2000>> } }

\* PredictionInput objects exist only for values the constructor accepted
ObjInputs ==
    { Input("obj", v) : v \in { Rec(60, 2000, 40), Rec(70, PosInf, 40) } }

PredictInputs == ListInputs \cup DictInputs \cup ObjInputs

BatchInputs ==
    { Input("list", SafeRec), Input("list", Rec(90, 2000, 40)),
      Input("list", Rec(150, 2000, 40)) }

\* app.py line 284: the largest batch POST /predict/batch processes
BATCH_LIMIT == 100

\* the batch of tests/test_api.py lines 96-97: one safe sample, 101 times
OversizeBatch == [i \in 1..(BATCH_LIMIT + 1) |-> Input("list", SafeRec)]

Batches ==
    UNION { [1..n -> BatchInputs] : n \in 0..MaxBatch } \cup { OversizeBatch }

\* a conversion that validates the fields of a dict but not those of a list
convert_error_dict_only(input) ==
    IF input.form = "list" /\ Len(input.vals) # 9
    THEN ValueError("Input list must have exactly 9 features", {9})
    ELSE IF input.form = "dict" /\ ~PredictionInputOK(input.vals)
    THEN [exc |-> "ValidationError", msg |-> "PredictionInput", nums |-> {}]
    ELSE NoError

\* lines 145-155: the error the conversion to PredictionInput raises, or NoError
convert_error(input) ==
    IF input.form = "list" /\ Len(input.vals) # 9
    THEN ValueError("Input list must have exactly 9 features", {9})
    ELSE IF input.form \in {"list", "dict"} /\ ~PredictionInputOK(input.vals)
    THEN [exc |-> "ValidationError", msg |-> "PredictionInput", nums |-> {}]
    ELSE NoError

(* ------------------------------------------------------------------ *)
(* The thread running a client call                                      *)
(* ------------------------------------------------------------------ *)

NoInfo ==
    [ model_loaded |-> FALSE, model_version |-> "", feature_names |-> NoneNames,
      model_type |-> "", scaler_type |-> "" ]

\* what a call hands back: the PredictionOutputs, the raised error, the
\* dictionary of get_model_info or the boolean of validate_input
Out(status, results, err, info, valid) ==
    [status |-> status, results |-> results, err |-> err, info |-> info, valid |-> valid]

NoOut == Out("none", <<>>, NoError, NoInfo, FALSE)

\* used: for each result, the scaler object that scaled it and the classifier
\* objects that answered predict and predict_proba
ClIdle ==
    [ pc |-> "idle", kind |-> "none", self |-> 0, batch |-> <<>>, idx |-> 0,
      features |-> <<>>, scaled |-> <<>>, usedScaler |-> NoneObj,
      usedModel |-> NoneObj, prediction |-> 0, results |-> <<>>, used |-> <<>>,
      out |-> NoOut ]

ClRaise(c, err) ==
    [c EXCEPT !.pc = "done", !.out = Out("error", <<>>, err, NoInfo, FALSE)]

\* a call on the global predictor: predict(input) or predict_batch(batch).
\* Inside the handler's try, app.py:237-241 raises HTTPException(503,
\* "Predictor not available") when it is None and app.py:284-288 raises
\* HTTPException(400, "Batch size too large ...") for more than 100 samples
call_begin(kind, batch) ==
    /\ cl.pc = "idle"
    /\ cl' = IF predictor = 0
             THEN [ClIdle EXCEPT !.pc = "done", !.kind = kind, !.batch = batch,
                     !.out = Out("unavailable", <<>>,
                                 [exc |-> "HTTPException", msg |-> "Predictor not available",
                                  nums |-> {}],
                                 NoInfo, FALSE)]
             ELSE IF kind = "predict_batch" /\ Len(batch) > BATCH_LIMIT
             THEN [ClIdle EXCEPT !.pc = "done", !.kind = kind, !.batch = batch,
                     !.self = predictor,
                     !.out = Out("too_large", <<>>,
                                 [exc |-> "HTTPException",
                                  msg |-> "Batch size too large (maximum 100 samples)",
                                  nums |-> {100}],
                                 NoInfo, FALSE)]
             ELSE IF batch = <<>>
             THEN [ClIdle EXCEPT !.pc = "done", !.kind = kind, !.self = predictor,
                     !.out = Out("ok", <<>>, NoError, NoInfo, FALSE)]
             ELSE [ClIdle EXCEPT !.pc = "p145", !.kind = kind, !.self = predictor,
                     !.batch = batch, !.idx = 1]
    /\ UNCHANGED <<fn, disk, heap, predictor, ld, tr>>

predict_begin == \E input \in PredictInputs : call_begin("predict", <<input>>)

predict_batch_begin == \E batch \in Batches : call_begin("predict_batch", batch)

\* predict lines 145-159: conversion, to_array, validate_inference_data
predict_validate ==
    /\ cl.pc = "p145"
    /\ LET input == cl.batch[cl.idx]
           cerr  == convert_error(input)
           features == to_array(input.vals)
           verr  == validate_inference_data(features, heap[cl.self].feature_names)
       IN  cl' = IF cerr # NoError THEN ClRaise(cl, cerr)
                 ELSE IF verr # NoError THEN ClRaise(cl, verr)
                 ELSE [cl EXCEPT !.pc = "p162", !.features = features]
    /\ UNCHANGED <<fn, disk, heap, predictor, ld, tr>>

\* predict line 162: features_scaled = self.scaler.transform(features)
predict_scale ==
    /\ cl.pc = "p162"
    /\ cl' = [cl EXCEPT !.pc = "p165", !.usedScaler = heap[cl.self].scaler,
                        !.scaled = transform(heap[cl.self].scaler, cl.features)]
    /\ UNCHANGED <<fn, disk, heap, predictor, ld, tr>>

\* predict line 165: prediction = self.model.predict(features_scaled)[0]
predict_classify ==
    /\ cl.pc = "p165"
    /\ cl' = [cl EXCEPT !.pc = "p166", !.usedModel = heap[cl.self].model,
                        !.prediction = model_predict(heap[cl.self].model, cl.scaled)]
    /\ UNCHANGED <<fn, disk, heap, predictor, ld, tr>>

\* PredictionOutput declares probability and confidence with ge=0, le=1
output_error(probabilities) ==
    IF /\ probability_of(probabilities) >= 0 /\ probability_of(probabilities) <= ONE
       /\ confidence_of(probabilities) >= 0 /\ confidence_of(probabilities) <= ONE
    THEN NoError
    ELSE [exc |-> "ValidationError", msg |-> "PredictionOutput", nums |-> {}]

\* a predict that marks the engine as loaded once it has answered
predict_writes_loaded(e) == [e EXCEPT !.is_loaded = TRUE]

\* the engine attributes predict assigns: none
predict_writes(e) == e

\* predict lines 166-185: predict_proba, the PredictionOutput, and either the
\* next record of the batch or the return
predict_output ==
    /\ cl.pc = "p166"
    /\ LET e == heap[cl.self]
           probabilities == model_predict_proba(e.model, cl.scaled)
           output == PredictionOutput(cl.prediction, probabilities,
                                      e.model_version, e.feature_names)
           results == Append(cl.results, output)
           used == Append(cl.used, [ scaler |-> cl.usedScaler, model |-> cl.usedModel,
                                     proba_model |-> e.model,
                                     probabilities |-> probabilities ])
       IN  /\ cl' = IF output_error(probabilities) # NoError
                    THEN ClRaise(cl, output_error(probabilities))
                    ELSE IF cl.idx < Len(cl.batch)
                    THEN [cl EXCEPT !.pc = "p145", !.idx = cl.idx + 1,
                                    !.results = results, !.used = used]
                    ELSE [cl EXCEPT !.pc = "done", !.results = results, !.used = used,
                                    !.out = Out("ok", results, NoError, NoInfo, FALSE)]
           /\ heap' = [heap EXCEPT ![cl.self] = predict_writes(e)]
    /\ UNCHANGED <<fn, disk, predictor, ld, tr>>

\* type(x).__name__ if x else None
type_name(obj) == IF obj.kind = "NoneType" THEN "None" ELSE obj.kind

\* get_model_info on the global predictor
get_model_info ==
    /\ cl.pc = "idle"
    /\ predictor # 0
    /\ LET e == heap[predictor]
       IN  cl' = [ClIdle EXCEPT !.pc = "done", !.kind = "get_model_info",
                     !.self = predictor,
                     !.out = Out("ok", <<>>, NoError,
                                 [ model_loaded |-> e.is_loaded,
                                   model_version |-> e.model_version,
                                   feature_names |-> e.feature_names,
                                   model_type |-> type_name(e.model),
                                   scaler_type |-> type_name(e.scaler) ],
                                 FALSE)]
    /\ UNCHANGED <<fn, disk, heap, predictor, ld, tr>>

\* validate_input(dict) on the global predictor
validate_input ==
    /\ cl.pc = "idle"
    /\ predictor # 0
    /\ \E input \in DictInputs :
         cl' = [ClIdle EXCEPT !.pc = "done", !.kind = "validate_input",
                  !.self = predictor, !.batch = <<input>>,
                  !.out = Out("ok", <<>>, NoError, NoInfo,
                              PredictionInputOK(input.vals))]
    /\ UNCHANGED <<fn, disk, heap, predictor, ld, tr>>

\* fastapi.HTTPException(status_code, detail)
HTTPException(status_code, detail) == [status_code |-> status_code, detail |-> detail]

\* the except clauses closing the try of predict_water_quality (app.py 264-269)
\* and of predict_batch (app.py 303-308): a ValueError (pydantic's
\* ValidationError is one) becomes 400 with its text, every other Exception,
\* an HTTPException raised inside the try included, becomes 500
handler_except(kind, err) ==
    IF err.exc \in {"ValueError", "ValidationError"}
    THEN HTTPException(400, err.msg)
    ELSE HTTPException(500, IF kind = "predict_batch" THEN "Batch prediction failed"
                            ELSE "Prediction failed")

\* app.py 169-176: the response built from an HTTPException
http_exception_handler(exc) == [status_code |-> exc.status_code, message |-> exc.detail]

\* the HTTP response of POST /predict or POST /predict/batch for a finished call
response(c) ==
    IF c.out.err = NoError
    THEN [status_code |-> 200, message |-> ""]
    ELSE http_exception_handler(handler_except(c.kind, c.out.err))

\* the call has returned; the thread is free for its next call
call_return ==
    /\ cl.pc = "done"
    /\ cl' = ClIdle
    /\ heap' = Collect(heap, predictor, ld, cl')
    /\ UNCHANGED <<fn, disk, predictor, ld, tr>>

(* ------------------------------------------------------------------ *)
(* The trainer process (train/trainer.py)                                *)
(* ------------------------------------------------------------------ *)

\* run: the training runs started so far; the artifacts found on disk at the
\* start were fitted in run 1.  pipe: the position of a train_from_file call,
\* stages: the stages of that call that have completed, file: the CSV it read
TrInit ==
    [ pc |-> "idle", model |-> NoneObj, scaler |-> NoneObj,
      feature_names |-> CanonicalNames, run |-> 1, saved |-> "none",
      pipe |-> "none", stages |-> <<>>, file |-> "none", err |-> NoError,
      model_saved |-> FALSE ]

\* no train_from_file call is running
PipeIdle(t) == t.pipe \in {"none", "returned", "raised"}

\* the CSV files load_data is given: a missing file, a valid table, a table
\* with too few rows, one with pH above 14, one whose rows are all of class 0,
\* and a valid table holding an infinite Hardness
DataFile(f) ==
    CASE f = "valid"     -> DataFrame(90, 10, 0, TRUE,
                              TrainingColumns(TRUE, 0, <<65, 85>>, <<0, 3000>>, {}))
      [] f = "few_rows"  -> DataFrame(5, 5, 0, TRUE,
                              TrainingColumns(TRUE, 0, <<65, 85>>, <<0, 3000>>, {}))
      [] f = "ph_high"   -> DataFrame(90, 10, 0, TRUE,
                              TrainingColumns(TRUE, 0, <<65, 141>>, <<0, 3000>>, {}))
      [] f = "one_class" -> DataFrame(100, 0, 0, TRUE,
                              TrainingColumns(TRUE, 0, <<65, 85>>, <<0, 3000>>, {}))
      [] f = "infinite"  -> DataFrame(90, 10, 0, TRUE,
                              TrainingColumns(TRUE, 0, <<65, 85>>, <<0, PosInf>>, {}))

ReadableFiles == {"valid", "few_rows", "ph_high", "one_class", "infinite"}

TrainingFiles == ReadableFiles \cup {"missing"}

\* a load_data that returns whatever pd.read_csv read
load_data_error_unvalidated(f, feature_names) ==
    IF f \notin ReadableFiles
    THEN [exc |-> "FileNotFoundError", msg |-> "No such file or directory", nums |-> {}]
    ELSE NoError

\* load_data, lines 57-69: the error it re-raises, or NoError
load_data_error(f, feature_names) ==
    IF f \notin ReadableFiles
    THEN [exc |-> "FileNotFoundError", msg |-> "No such file or directory", nums |-> {}]
    ELSE validate_training_data(DataFile(f), feature_names)

\* line 93: StandardScaler.fit_transform rejects a matrix holding an infinity
preprocess_error(data) ==
    IF \E name \in DOMAIN data.cols :
          IsInf(data.cols[name].min) \/ IsInf(data.cols[name].max)
    THEN ValueError("Input X contains infinity or a value too large for dtype('float64').",
                    {64})
    ELSE NoError

\* the classes of the labels y
ClassesOf(data) ==
    IF data.n1 = 0 THEN <<0>> ELSE IF data.n0 = 0 THEN <<1>> ELSE <<0, 1>>

\* train_from_file, line 257: the pipeline starts
train_from_file_begin ==
    /\ tr.pc = "idle" /\ PipeIdle(tr)
    /\ tr' = [tr EXCEPT !.pipe = "t259", !.stages = <<>>, !.file = "none",
                        !.err = NoError, !.model_saved = FALSE]
    /\ UNCHANGED <<fn, disk, heap, predictor, ld, cl>>

\* train_from_file, line 259: load_data returns the table or raises
load_data ==
    /\ tr.pipe = "t259"
    /\ \E f \in TrainingFiles :
         LET err == load_data_error(f, tr.feature_names)
         IN  tr' = IF err # NoError
                   THEN [tr EXCEPT !.pipe = "raised", !.file = f, !.err = err]
                   ELSE [tr EXCEPT !.pipe = "t260", !.file = f,
                                   !.stages = Append(@, "load_data")]
    /\ UNCHANGED <<fn, disk, heap, predictor, ld, cl>>

\* preprocess_data, lines 92-93: a new StandardScaler is assigned, then fitted;
\* called on its own or at line 260 of train_from_file on the table just loaded
preprocess_data ==
    /\ tr.pc = "idle"
    /\ PipeIdle(tr) \/ tr.pipe = "t260"
    /\ \E f \in ReadableFiles :
         /\ tr.pipe = "t260" => f = tr.file
         /\ preprocess_error(DataFile(f)) = NoError => tr.run < 1 + MaxTrain
         /\ tr' = IF preprocess_error(DataFile(f)) # NoError
                  THEN [tr EXCEPT !.scaler = StandardScaler(0),
                                  !.pipe = IF @ = "t260" THEN "raised" ELSE @,
                                  !.err = IF tr.pipe = "t260"
                                          THEN preprocess_error(DataFile(f)) ELSE @]
                  ELSE [tr EXCEPT !.run = tr.run + 1,
                                  !.scaler = StandardScaler(tr.run + 1),
                                  !.pipe = IF @ = "t260" THEN "t263" ELSE @,
                                  !.stages = IF tr.pipe = "t260"
                                             THEN Append(@, "preprocess_data") ELSE @]
    /\ tr' # tr
    /\ UNCHANGED <<fn, disk, heap, predictor, ld, cl>>

\* train_model, line 165, on the output of the latest preprocess_data; called
\* on its own or at line 263 of train_from_file.  The labels may hold a single
\* class (validate_training_data lets such a table pass).
train_model ==
    /\ tr.pc = "idle"
    /\ PipeIdle(tr) \/ tr.pipe = "t263"
    /\ tr.scaler # NoneObj /\ tr.scaler.run > 0
    /\ \E classes \in { <<0, 1>>, <<0>> } :
         /\ tr.pipe = "t263" => classes = ClassesOf(DataFile(tr.file))
         /\ tr' = [tr EXCEPT !.model = RandomForest(tr.scaler.run, classes),
                             !.pipe = IF @ = "t263" THEN "t266" ELSE @,
                             !.stages = IF tr.pipe = "t263"
                                        THEN Append(@, "train_model") ELSE @]
    /\ tr' # tr
    /\ UNCHANGED <<fn, disk, heap, predictor, ld, cl>>

\* a save_model that starts writing without looking at model and scaler
save_model_begin_unchecked ==
    /\ tr.pc = "idle"
    /\ PipeIdle(tr) \/ tr.pipe = "t266"
    /\ tr' = [tr EXCEPT !.pc = "s202", !.saved = "none",
                        !.pipe = IF @ = "t266" THEN "t266s" ELSE @]
    /\ UNCHANGED <<fn, disk, heap, predictor, ld, cl>>

\* save_model, lines 196-197; called on its own or at line 266 of
\* train_from_file
save_model_begin ==
    /\ tr.pc = "idle"
    /\ PipeIdle(tr) \/ tr.pipe = "t266"
    /\ tr' = IF tr.model = NoneObj \/ tr.scaler = NoneObj
             THEN [tr EXCEPT !.saved = "failed",
                             !.pipe = IF @ = "t266" THEN "t266s" ELSE @]
             ELSE [tr EXCEPT !.pc = "s202", !.saved = "none",
                             !.pipe = IF @ = "t266" THEN "t266s" ELSE @]
    /\ tr' # tr
    /\ UNCHANGED <<fn, disk, heap, predictor, ld, cl>>

\* a train_from_file that reports the model as saved whatever save_model returned
train_from_file_return_saved ==
    /\ tr.pipe = "t266s" /\ tr.pc = "idle"
    /\ tr' = [tr EXCEPT !.pipe = "returned", !.model_saved = TRUE]
    /\ UNCHANGED <<fn, disk, heap, predictor, ld, cl>>

\* train_from_file, lines 266-273: model_saved is what save_model returned
train_from_file_return ==
    /\ tr.pipe = "t266s" /\ tr.pc = "idle"
    /\ tr' = [tr EXCEPT !.pipe = "returned", !.model_saved = (tr.saved = "saved")]
    /\ UNCHANGED <<fn, disk, heap, predictor, ld, cl>>

\* joblib.dump either writes the file or raises, leaving a truncated file
\* line 202: joblib.dump(self.model, model_path)
save_model_model ==
    /\ tr.pc = "s202"
    /\ \/ /\ disk' = [disk EXCEPT !.model = File("ok", tr.model)]
          /\ tr' = [tr EXCEPT !.pc = "s203"]
       \/ /\ disk' = [disk EXCEPT !.model = CorruptFile]
          /\ tr' = [tr EXCEPT !.pc = "idle", !.saved = "failed"]
    /\ UNCHANGED <<fn, heap, predictor, ld, cl>>

\* a save_model that leaves a readable scaler.pkl as it finds it
save_model_scaler_kept ==
    /\ tr.pc = "s203"
    /\ \/ /\ disk' = [disk EXCEPT !.scaler = IF @.st = "ok" THEN @
                                             ELSE File("ok", tr.scaler)]
          /\ tr' = [tr EXCEPT !.pc = "s210"]
       \/ /\ disk' = [disk EXCEPT !.scaler = CorruptFile]
          /\ tr' = [tr EXCEPT !.pc = "idle", !.saved = "failed"]
    /\ UNCHANGED <<fn, heap, predictor, ld, cl>>

\* line 203: joblib.dump(self.scaler, scaler_path)
save_model_scaler ==
    /\ tr.pc = "s203"
    /\ \/ /\ disk' = [disk EXCEPT !.scaler = File("ok", tr.scaler)]
          /\ tr' = [tr EXCEPT !.pc = "s210"]
       \/ /\ disk' = [disk EXCEPT !.scaler = CorruptFile]
          /\ tr' = [tr EXCEPT !.pc = "idle", !.saved = "failed"]
    /\ UNCHANGED <<fn, heap, predictor, ld, cl>>

\* line 210: joblib.dump(self.feature_names, feature_path); return True
save_model_features ==
    /\ tr.pc = "s210"
    /\ \/ /\ disk' = [disk EXCEPT !.features = NamesFile("ok", tr.feature_names)]
          /\ tr' = [tr EXCEPT !.pc = "idle", !.saved = "saved"]
       \/ /\ disk' = [disk EXCEPT !.features = NamesFile("corrupt", NoneNames)]
          /\ tr' = [tr EXCEPT !.pc = "idle", !.saved = "failed"]
    /\ UNCHANGED <<fn, heap, predictor, ld, cl>>

(* ------------------------------------------------------------------ *)
(* Specification                                                         *)
(* ------------------------------------------------------------------ *)

\* the model directory the service is started on: model.pkl and scaler.pkl may
\* each be absent or unreadable; a readable model.pkl holds a forest of run 1,
\* possibly one fitted on a single class.  features.pkl is opened only after the
\* other two were read (lines 96-101), so the directories differ in it only
\* where both are readable.
InitDisks ==
    { d \in [ model : { AbsentFile, CorruptFile, File("ok", RandomForest(1, <<0, 1>>)),
                        File("ok", RandomForest(1, <<0>>)) },
              scaler : { AbsentFile, CorruptFile, File("ok", StandardScaler(1)) },
              features : { NamesFile("absent", NoneNames),
                           NamesFile("corrupt", NoneNames),
                           NamesFile("ok", CanonicalNames), NamesFile("ok", ShortNames),
                           NamesFile("ok", PermutedNames) } ] :
        d.features.st = "absent" \/ (d.model.st = "ok" /\ d.scaler.st = "ok") }

\* app.py line 27: predictor = None until the lifespan startup constructs it
Init ==
    /\ disk \in InitDisks
    /\ heap = [i \in InstIds |-> NewEngine]
    /\ predictor = 0
    /\ ld = LdIdle
    /\ cl = ClIdle
    /\ tr = TrInit
    /\ fn = NoCall

Next ==
    \/ construct_begin
    \/ load_model_begin
    \/ load_model_exists
    \/ load_model_model
    \/ load_model_scaler
    \/ load_model_features
    \/ construct_end
    \/ load_model_end
    \/ loader_idle
    \/ predict_begin
    \/ predict_batch_begin
    \/ predict_validate
    \/ predict_scale
    \/ predict_classify
    \/ predict_output
    \/ get_model_info
    \/ validate_input
    \/ call_return

Spec == Init /\ [][Next]_vars

\* the trainer process beside a serving process that constructs and reloads
NextTrainer ==
    \/ construct_begin
    \/ load_model_begin
    \/ load_model_exists
    \/ load_model_model
    \/ load_model_scaler
    \/ load_model_features
    \/ construct_end
    \/ load_model_end
    \/ loader_idle
    \/ preprocess_data
    \/ train_model
    \/ save_model_begin
    \/ save_model_model
    \/ save_model_scaler
    \/ save_model_features

SpecTrainer == Init /\ [][NextTrainer]_vars

\* the trainer process alone: train_from_file and the methods called directly
NextPipeline ==
    \/ train_from_file_begin
    \/ load_data
    \/ preprocess_data
    \/ train_model
    \/ save_model_begin
    \/ save_model_model
    \/ save_model_scaler
    \/ save_model_features
    \/ train_from_file_return

SpecPipeline == Init /\ [][NextPipeline]_vars

\* one thread of control: trainer calls, then, once a save_model has returned
\* True, one fresh WaterQualityPredictor on the same directory, then predictions
BeforeEngine == predictor = 0 /\ ld.pc = "idle"

NextRoundTrip ==
    \/ BeforeEngine /\ preprocess_data
    \/ BeforeEngine /\ train_model
    \/ BeforeEngine /\ save_model_begin
    \/ BeforeEngine /\ save_model_model
    \/ BeforeEngine /\ save_model_scaler
    \/ BeforeEngine /\ save_model_features
    \/ BeforeEngine /\ tr.pc = "idle" /\ tr.saved = "saved" /\ construct_begin
    \/ load_model_exists
    \/ load_model_model
    \/ load_model_scaler
    \/ load_model_features
    \/ construct_end
    \/ loader_idle
    \/ predictor # 0 /\ predict_begin
    \/ predict_validate
    \/ predict_scale
    \/ predict_classify
    \/ predict_output
    \/ call_return

SpecRoundTrip == Init /\ [][NextRoundTrip]_vars

(* ------------------------------------------------------------------ *)
(* MockModel called directly (tests/test_predictor.py, TestMockModel)    *)
(* ------------------------------------------------------------------ *)

MockPH == {NaN, NegInf, -10, 0, 64, 65, 70, 85, 86, 150, PosInf}

MockTurbidities == {NaN, NegInf, 0, 49, 50, 51, 250, PosInf}

\* rows of nine features, and shorter rows, which have no turbidity column
MockRows ==
    { Rec(ph, 2000, t) : ph \in MockPH, t \in MockTurbidities }
        \cup { <<ph>> : ph \in MockPH }
        \cup { <<ph, 2000, 200000, 70, 3000, 5000, 150, 800>> : ph \in MockPH }

mock_predict ==
    \E x \in MockRows :
        /\ fn' = Call("MockModel.predict", x, <<MockModel_predict(x)>>)
        /\ UNCHANGED <<disk, heap, predictor, ld, cl, tr>>

mock_predict_proba ==
    \E x \in MockRows :
        /\ fn' = Call("MockModel.predict_proba", x, MockModel_predict_proba(x))
        /\ UNCHANGED <<disk, heap, predictor, ld, cl, tr>>

mock_transform ==
    \E x \in MockRows :
        /\ fn' = Call("MockScaler.transform", x, MockScaler_transform(x))
        /\ UNCHANGED <<disk, heap, predictor, ld, cl, tr>>

InitMock ==
    /\ disk = [ model |-> AbsentFile, scaler |-> AbsentFile,
                features |-> NamesFile("absent", NoneNames) ]
    /\ heap = [i \in InstIds |-> NewEngine]
    /\ predictor = 0
    /\ ld = LdIdle
    /\ cl = ClIdle
    /\ tr = TrInit
    /\ fn = NoCall

NextMock ==
    \/ mock_predict
    \/ mock_predict_proba
    \/ mock_transform

SpecMock == InitMock /\ [][NextMock]_vars

(* ------------------------------------------------------------------ *)
(* The validators called directly                                        *)
(* ------------------------------------------------------------------ *)

\* one-row arrays as predict builds them, and arrays of other widths
InferenceRows ==
    { Rec(ph, hardness, t) : ph \in {NaN, -10, 0, 70, 140, 150},
                             hardness \in {NegInf, -2000, 0, 2000, 20000, PosInf},
                             t \in {-1, 0, 40, 200, 250} }
        \cup { <<70, 2000>>, <<-10, 2000>>, <<70, 20000>>, <<70, 2000, 200000>> }

InferenceNames == { CanonicalNames, ShortNames, PermutedNames }

\* each behaviour makes one call
call_validate_training_data ==
    /\ fn = NoCall
    /\ \E n0 \in ClassZeroRows, n1 \in ClassOneRows, nOther \in {0, 1} :
      \E data \in TrainingSetsOf(n0, n1, nOther) :
        /\ fn' = Call("validate_training_data", data,
                      validate_training_data(data, CanonicalNames))
        /\ UNCHANGED <<disk, heap, predictor, ld, cl, tr>>

call_validate_inference_data ==
    /\ fn = NoCall
    /\ \E features \in InferenceRows, feature_names \in InferenceNames :
        /\ fn' = Call("validate_inference_data",
                      [features |-> features, feature_names |-> feature_names],
                      validate_inference_data(features, feature_names))
        /\ UNCHANGED <<disk, heap, predictor, ld, cl, tr>>

NextValidator ==
    \/ call_validate_training_data
    \/ call_validate_inference_data

SpecValidator == InitMock /\ [][NextValidator]_vars

(* ------------------------------------------------------------------ *)
(* ModelEvaluator (utils/model_evaluator.py)                             *)
(* ------------------------------------------------------------------ *)

\* The evaluator's floats are exact rationals <<numerator, denominator>> in
\* lowest terms with a positive denominator.
Abs(n) == IF n < 0 THEN -n ELSE n

RECURSIVE GCD(_, _)
GCD(a, b) == IF b = 0 THEN a ELSE GCD(b, a % b)

Frac(n, d) == LET g == GCD(Abs(n), d) IN <<n \div g, d \div g>>

RZero == Frac(0, 1)

ROne == Frac(1, 1)

RAdd(x, y) == Frac(x[1] * y[2] + y[1] * x[2], x[2] * y[2])

RSub(x, y) == Frac(x[1] * y[2] - y[1] * x[2], x[2] * y[2])

RMul(x, y) == Frac(x[1] * y[1], x[2] * y[2])

\* x / y for y # 0
RDiv(x, y) ==
    IF y[1] > 0 THEN Frac(x[1] * y[2], x[2] * y[1])
    ELSE Frac(-(x[1] * y[2]), x[2] * (-y[1]))

RLe(x, y) == x[1] * y[2] <= y[1] * x[2]

RLt(x, y) == x[1] * y[2] < y[1] * x[2]

RMax(x, y) == IF RLe(x, y) THEN y ELSE x

RAbs(x) == <<Abs(x[1]), x[2]>>

\* F1 scores k / F1Grid
F1Grid == 10

F1Values == { Frac(k, F1Grid) : k \in 0..F1Grid }

\* an overfitting score without the max(0.0, ...) of line 111
calculate_overfitting_unclamped(results) ==
    IF results.train_f1 = RZero
    THEN RZero
    ELSE RDiv(RSub(results.train_f1, results.f1), results.train_f1)

\* _calculate_overfitting, lines 103-111
calculate_overfitting(results) ==
    IF results.train_f1 = RZero
    THEN RZero
    ELSE RMax(RZero, RDiv(RSub(results.train_f1, results.f1), results.train_f1))

\* samples of a calibration call: probabilities in hundredths, labels 0 and 1
MaxSamples == 2

ProbValues == {0, 1, 10, 20, 50, 51, 100}

NBins == {2, 5, 10}

SampleSets ==
    UNION { [1..n -> [proba : ProbValues, true : {0, 1}]] : n \in 1..MaxSamples }

\* line 206: np.linspace(0, 1, n_bins + 1)
bin_boundaries(n_bins) == [k \in 1..(n_bins + 1) |-> Frac(k - 1, n_bins)]

\* line 212: the samples with y_proba > bin_lower and y_proba <= bin_upper
in_bin(y_proba, bin_lower, bin_upper) ==
    { i \in 1..Len(y_proba) : RLt(bin_lower, y_proba[i]) /\ RLe(y_proba[i], bin_upper) }

\* the sum of the values of a sequence at the positions of S, up to position i
RECURSIVE BinSum(_, _, _)
BinSum(vals, S, i) ==
    IF i = 0 THEN RZero
    ELSE RAdd(IF i \in S THEN vals[i] ELSE RZero, BinSum(vals, S, i - 1))

\* lines 213-218: what one bin adds to the expected calibration error
ece_term(y_true, y_proba, S) ==
    LET n == Cardinality(S)
        prop_in_bin == Frac(n, Len(y_proba))
    IN  IF n > 0
        THEN LET accuracy_in_bin == RDiv(BinSum(y_true, S, Len(y_true)), Frac(n, 1))
                 avg_confidence_in_bin == RDiv(BinSum(y_proba, S, Len(y_proba)), Frac(n, 1))
             IN  RMul(RAbs(RSub(avg_confidence_in_bin, accuracy_in_bin)), prop_in_bin)
        ELSE RZero

\* lines 210-218: the loop over the first k bins
RECURSIVE ece_upto(_, _, _, _)
ece_upto(y_true, y_proba, n_bins, k) ==
    IF k = 0 THEN RZero
    ELSE RAdd(ece_upto(y_true, y_proba, n_bins, k - 1),
              ece_term(y_true, y_proba,
                       in_bin(y_proba, bin_boundaries(n_bins)[k],
                              bin_boundaries(n_bins)[k + 1])))

\* calculate_calibration_metrics, lines 205-222, for probabilities in [0,1]:
\* the expected calibration error and, per bin, the number of samples in it
\* (the two curves of sklearn's calibration_curve are left out)
calculate_calibration_metrics(y_true, y_proba, n_bins) ==
    [ expected_calibration_error |-> ece_upto(y_true, y_proba, n_bins, n_bins),
      in_bin |-> [k \in 1..n_bins |->
                    Cardinality(in_bin(y_proba, bin_boundaries(n_bins)[k],
                                       bin_boundaries(n_bins)[k + 1]))] ]

\* each behaviour makes one call
call_calculate_overfitting ==
    /\ fn = NoCall
    /\ \E train_f1 \in F1Values, f1 \in F1Values :
        /\ fn' = Call("_calculate_overfitting", [train_f1 |-> train_f1, f1 |-> f1],
                      calculate_overfitting([train_f1 |-> train_f1, f1 |-> f1]))
        /\ UNCHANGED <<disk, heap, predictor, ld, cl, tr>>

call_calculate_calibration_metrics ==
    /\ fn = NoCall
    /\ \E samples \in SampleSets, n_bins \in NBins :
        LET y_true == [i \in 1..Len(samples) |-> Frac(samples[i].true, 1)]
            y_proba == [i \in 1..Len(samples) |-> Frac(samples[i].proba, ONE)]
        IN  /\ fn' = Call("calculate_calibration_metrics",
                          [y_true |-> y_true, y_proba |-> y_proba, n_bins |-> n_bins],
                          calculate_calibration_metrics(y_true, y_proba, n_bins))
            /\ UNCHANGED <<disk, heap, predictor, ld, cl, tr>>

NextEvaluator ==
    \/ call_calculate_overfitting
    \/ call_calculate_calibration_metrics

SpecEvaluator == InitMock /\ [][NextEvaluator]_vars

(* ------------------------------------------------------------------ *)
(* Properties                                                            *)
(* ------------------------------------------------------------------ *)

\* a scaler and a classifier of one artifact: the fallback pair, or the two
\* objects fitted in one training run
SamePair(scaler, model) ==
    \/ scaler.kind = "MockScaler" /\ model.kind = "MockModel"
    \/ /\ scaler.kind = "StandardScaler" /\ model.kind = "RandomForestClassifier"
       /\ scaler.run = model.run

\* the engine the constructor leaves when load_model returned False
FallbackEngine == Engine(MockModel, MockScaler, CanonicalNames, "fallback-1.0.0", FALSE)

\* the directory holds a loadable artifact: model.pkl and scaler.pkl exist and
\* deserialize, and features.pkl, when present, deserializes
Loadable(d) ==
    /\ d.model.st = "ok" /\ d.scaler.st = "ok"
    /\ d.features.st # "corrupt"

\* a predict or predict_batch call has returned or raised
Answered(kind) ==
    cl.pc = "done" /\ cl.kind = kind /\ cl.out.status \in {"ok", "error"}

\* C1: every predict call scales and classifies with a scaler and a classifier
\* (for predict and for predict_proba) that belong to one artifact, also while
\* load_model or a reload replaces the active artifact.
C1_PredictUsesOnePair ==
    \A k \in 1..Len(cl.used) :
        /\ SamePair(cl.used[k].scaler, cl.used[k].model)
        /\ SamePair(cl.used[k].scaler, cl.used[k].proba_model)


\* C2: when the constructor is done the global predictor is the new instance,
\* its model and scaler are set, and for every directory that holds no loadable
\* artifact (a file absent or failing to deserialize) the instance is exactly the
\* fallback engine: MockModel, MockScaler, the canonical names, is_loaded false.
\* (Under Spec the directory does not change while the service runs.)
C2_ConstructionEndsWithPair ==
    (ld.pc = "done" /\ ld.mode = "ctor") =>
        LET e == heap[ld.self]
        IN  /\ predictor = ld.self
            /\ e.model # NoneObj /\ e.scaler # NoneObj
            /\ ~Loadable(disk) => e = FallbackEngine
            /\ Loadable(disk) =>
                 /\ e.model = disk.model.obj /\ e.scaler = disk.scaler.obj
                 /\ e.is_loaded

\* C2 witness: model.pkl was deserialized and assigned, scaler.pkl failed to
\* deserialize, and the constructor still left the fallback engine
C2_FallbackAfterPartialLoad ==
    /\ ld.pc = "done" /\ ld.mode = "ctor" /\ ~ld.ret
    /\ disk.model.st = "ok" /\ disk.scaler.st = "corrupt"
    /\ ld.gotModel = disk.model.obj
    /\ heap[ld.self] = FallbackEngine

\* C3: a load_model call on the live engine that returned False left the
\* engine's model, scaler, feature_names, is_loaded and model_version as they
\* were when the call was entered.
C3_FailedLoadChangesNothing ==
    (ld.pc = "done" /\ ld.mode = "direct" /\ ~ld.ret) => heap[ld.self] = ld.pre

\* C4: load_model returns True exactly when model.pkl and scaler.pkl exist and
\* every deserialization succeeds; then is_loaded is true and model and scaler
\* are the deserialized objects; a call that returns False on an engine whose
\* is_loaded was false leaves it false.
C4_LoadModelResult ==
    ld.pc = "done" =>
        LET e == heap[ld.self]
        IN  /\ ld.ret = Loadable(disk)
            /\ ld.ret =>
                 /\ e.is_loaded
                 /\ e.model = disk.model.obj /\ e.scaler = disk.scaler.obj
            /\ (~ld.ret /\ ~ld.pre.is_loaded) => ~e.is_loaded

\* C4 witness: load_model on the live engine returned True with no features.pkl
C4_LoadedWithoutFeaturesFile ==
    /\ ld.pc = "done" /\ ld.mode = "direct" /\ ld.ret
    /\ disk.features.st = "absent"
    /\ heap[ld.self].is_loaded
    /\ heap[ld.self].feature_names = CanonicalNames

\* C5: a predict call on a record that satisfies the FeatureRecord invariant is
\* answered with a PredictionResult, in every engine state.
C5_ValidRecordAnswered ==
    (Answered("predict") /\ FeatureRecordOK(cl.batch[1].vals)) => cl.out.status = "ok"

\* C6: a step of predict, predict_batch, get_model_info or validate_input leaves
\* the attributes of every engine instance that is still alive unchanged, whether
\* the call ends in a result or in an error.
C6_CallsLeaveEngineUnchanged ==
    [][ cl' # cl =>
          \A i \in Referenced(predictor', ld', cl') : heap'[i] = heap[i] ]_vars

\* C6 witness: a predict call has raised on an engine that holds a loaded pair
C6_CallFailedOnLoadedEngine ==
    /\ Answered("predict") /\ cl.out.status = "error"
    /\ heap[cl.self].is_loaded

\* result r is what predict computes for input with the objects of u
IsPredictionFor(r, input, u) ==
    LET z == transform(u.scaler, to_array(input.vals))
    IN  /\ r.prediction = model_predict(u.model, z)
        /\ r.probability = probability_of(model_predict_proba(u.proba_model, z))
        /\ r.confidence = confidence_of(model_predict_proba(u.proba_model, z))
        /\ r.result = result_of(r.prediction)

\* C7: a predict_batch call over N records either returns exactly N results,
\* the i-th being the prediction for the i-th record, or fails as a whole and
\* hands back no results; it fails whenever some record is invalid and succeeds
\* whenever every record satisfies the FeatureRecord invariant.
C7_BatchAllOrNothing ==
    Answered("predict_batch") =>
        LET n == Len(cl.batch)
        IN  /\ cl.out.status = "ok" =>
                 /\ Len(cl.out.results) = n
                 /\ \A i \in 1..n :
                      IsPredictionFor(cl.out.results[i], cl.batch[i], cl.used[i])
            /\ cl.out.status = "error" => cl.out.results = <<>>
            /\ (\E k \in 1..n : ~FeatureRecordOK(cl.batch[k].vals))
                 => cl.out.status = "error"
            /\ (\A k \in 1..n : FeatureRecordOK(cl.batch[k].vals))
                 => cl.out.status = "ok"

\* C8: every result predict returns (for a valid FeatureRecord) has prediction
\* in {0,1}, probability in [0,1], confidence in [0,1] and confidence >= 0.5.
C8_ResultRanges ==
    (cl.pc = "done" /\ cl.kind \in {"predict", "predict_batch"}) =>
        \A k \in 1..Len(cl.out.results) :
            LET r == cl.out.results[k]
            IN  /\ FeatureRecordOK(cl.batch[k].vals)
                /\ r.prediction \in {0, 1}
                /\ r.probability >= 0 /\ r.probability <= ONE
                /\ r.confidence >= 0 /\ r.confidence <= ONE
                /\ 2 * r.confidence >= ONE

\* C8 witness: a confident "Not Safe": probability below 0.5, confidence above
C8_ConfidentlyUnsafe ==
    /\ Answered("predict") /\ cl.out.status = "ok"
    /\ cl.out.results[1].prediction = 0
    /\ 2 * cl.out.results[1].probability < ONE
    /\ 2 * cl.out.results[1].confidence > ONE

\* the probability mass a classifier's vector puts on class 1
PositiveMass(model, probabilities) ==
    IF \E j \in 1..Len(model.classes) : model.classes[j] = 1
    THEN probabilities[CHOOSE j \in 1..Len(model.classes) : model.classes[j] = 1]
    ELSE 0

\* C9: in every result, probability is the mass the classifier's vector puts on
\* class 1 and confidence is the largest entry of the vector, also for a vector
\* with a single entry.
C9_ProbabilityIsPositiveMass ==
    \A k \in 1..Len(cl.results) :
        /\ cl.results[k].probability
             = PositiveMass(cl.used[k].proba_model, cl.used[k].probabilities)
        /\ cl.results[k].confidence = SeqMax(cl.used[k].probabilities)

\* C10: MockModel.predict_proba returns [1 - s, s] with s = 0.5, plus 0.25 if pH
\* is in [6.5, 8.5], plus 0.15 if turbidity <= 5.0 (a row without a turbidity
\* column counts as 5.0), clamped to [0.01, 0.99]; the two entries sum to 1 and
\* each lies in [0,1].
C10_MockProbabilities ==
    fn.name = "MockModel.predict_proba" =>
        LET x == fn.arg
            t == IF Len(x) >= 9 THEN x[9] ELSE 50
            raw == 50 + (IF ~IsNaN(x[1]) /\ x[1] >= 65 /\ x[1] <= 85 THEN 25 ELSE 0)
                      + (IF ~IsNaN(t) /\ t <= 50 THEN 15 ELSE 0)
            s == IF raw > 99 THEN 99 ELSE IF raw < 1 THEN 1 ELSE raw
        IN  /\ fn.value = <<100 - s, s>>
            /\ fn.value[1] + fn.value[2] = 100
            /\ \A j \in 1..2 : fn.value[j] >= 0 /\ fn.value[j] <= 100

\* C10 witness: both thresholds met exactly (pH 8.5, turbidity 5.0)
C10_BothBonusesAtThreshold ==
    /\ fn.name = "MockModel.predict_proba"
    /\ fn.arg = Rec(85, 2000, 50)
    /\ fn.value = <<10, 90>>

\* C11: every result computed by the fallback pair has label 1 and result "Safe"
\* exactly when the record's pH is in [6.5, 8.5] and its Turbidity is <= 5.0, and
\* label 0 "Not Safe" otherwise; on the fallback engine every valid record is
\* answered, and the sample record [7.0,200,20000,7,300,500,15,80,4.0] gets 1 "Safe".
C11_FallbackRule ==
    (cl.pc = "done" /\ cl.kind \in {"predict", "predict_batch"}) =>
        /\ \A k \in 1..Len(cl.results) :
             (cl.used[k].scaler = MockScaler /\ cl.used[k].model = MockModel) =>
                LET v == cl.batch[k].vals
                    safe == v[1] >= 65 /\ v[1] <= 85 /\ v[9] <= 50
                IN  /\ cl.results[k].prediction = IF safe THEN 1 ELSE 0
                    /\ cl.results[k].result = IF safe THEN "Safe" ELSE "Not Safe"
        /\ (Answered("predict") /\ heap[cl.self] = FallbackEngine
              /\ FeatureRecordOK(cl.batch[1].vals)) => cl.out.status = "ok"
        /\ (Answered("predict") /\ heap[cl.self] = FallbackEngine
              /\ cl.batch[1].vals = <<70, 2000, 200000, 70, 3000, 5000, 150, 800, 40>>) =>
                /\ cl.out.results[1].prediction = 1
                /\ cl.out.results[1].result = "Safe"

\* C11 witness: the sample record answered 1 "Safe" by the fallback engine
C11_SampleRecordSafe ==
    /\ Answered("predict") /\ cl.out.status = "ok"
    /\ heap[cl.self] = FallbackEngine
    /\ cl.used[1].scaler = MockScaler /\ cl.used[1].model = MockModel
    /\ cl.batch[1] = Input("list", <<70, 2000, 200000, 70, 3000, 5000, 150, 800, 40>>)
    /\ cl.out.results[1].prediction = 1 /\ cl.out.results[1].result = "Safe"

\* a record of nine values with pH outside [0,14] or a negative value
OutOfRange(vals) ==
    /\ Len(vals) = 9
    /\ \/ ~IsNaN(vals[1]) /\ (vals[1] < 0 \/ vals[1] > 140)
       \/ \E i \in 2..9 : ~IsNaN(vals[i]) /\ vals[i] < 0

\* C12: a predict call on a record whose pH is outside [0,14] or that has a
\* negative value never reaches scaler.transform, model.predict or
\* model.predict_proba for that record, and ends in the validation rejection of
\* PredictionInput.
C12_OutOfRangeStopsBeforeClassifier ==
    /\ cl.pc \in {"p162", "p165", "p166"} => ~OutOfRange(cl.batch[cl.idx].vals)
    /\ \A k \in 1..Len(cl.used) : ~OutOfRange(cl.batch[k].vals)
    /\ (Answered("predict") /\ OutOfRange(cl.batch[1].vals)) =>
          /\ cl.out.status = "error"
          /\ cl.out.err.exc = "ValidationError"
          /\ cl.used = <<>> /\ cl.usedScaler = NoneObj /\ cl.usedModel = NoneObj

\* C12 witness: the list [15.0,200,20000,7,300,500,15,80,4.0] was rejected
C12_PH15Rejected ==
    /\ Answered("predict") /\ cl.out.status = "error"
    /\ cl.batch[1] = Input("list", <<150, 2000, 200000, 70, 3000, 5000, 150, 800, 40>>)
    /\ cl.out.err.exc = "ValidationError"
    /\ cl.used = <<>>

\* C13: a predict call on a list whose length is not 9 fails with a ValueError
\* whose message shows the expected length 9 and the length received.
C13_LengthErrorNamesBoth ==
    (Answered("predict") /\ cl.batch[1].form = "list" /\ Len(cl.batch[1].vals) # 9) =>
        /\ cl.out.status = "error"
        /\ cl.out.err.exc = "ValueError"
        /\ 9 \in cl.out.err.nums
        /\ Len(cl.batch[1].vals) \in cl.out.err.nums

\* the value an input gives for the feature called name (lines 150-155 for a
\* list, the keyword or attribute of that name otherwise)
FieldValue(input, name) ==
    input.vals[CHOOSE j \in 1..Len(CanonicalNames) : CanonicalNames[j] = name]

\* C14: the vector predict hands to the scaler and the classifier after
\* validation holds, at each position i, the input's value for
\* feature_names[i] of the engine, also for names loaded from features.pkl.
C14_VectorFollowsFeatureNames ==
    [][ (cl.pc = "p145" /\ cl'.pc = "p162") =>
          LET names == heap[cl.self].feature_names
          IN  /\ Len(cl'.features) = Len(names)
              /\ \A i \in 1..Len(names) :
                   cl'.features[i] = FieldValue(cl.batch[cl.idx], names[i]) ]_vars

\* the checks of validate_training_data that come before the sample counts pass
TargetChecksPass(data) ==
    /\ data.n0 + data.n1 + data.nOther > 0
    /\ data.target /\ "Turbidity" \in DOMAIN data.cols
    /\ data.nOther = 0

\* C15: once the earlier checks pass, validate_training_data fails with the
\* insufficient-data error whenever there are fewer than 100 rows or class 0 or
\* class 1 has fewer than 10 rows.
C15_InsufficientDataRejected ==
    ( /\ fn.name = "validate_training_data"
      /\ TargetChecksPass(fn.arg)
      /\ \/ fn.arg.n0 + fn.arg.n1 < 100
         \/ fn.arg.n0 < 10
         \/ fn.arg.n1 < 10 ) =>
        fn.value.msg \in { "Training data must have at least 100 samples",
                           "Each class must have at least 10 samples" }

\* some non-null value of the table lies outside its domain: pH outside
\* [0,14], any other feature below 0
OutOfDomain(data) ==
    \E name \in DOMAIN data.cols :
        LET c == data.cols[name]
        IN  \/ ~IsNaN(c.min) /\ c.min < 0
            \/ name = "pH" /\ ~IsNaN(c.max) /\ c.max > 140

\* every check of validate_training_data before the ranges passes
PreRangeChecksPass(data) ==
    /\ TargetChecksPass(data)
    /\ data.n0 + data.n1 >= 100
    /\ (data.n0 = 0 \/ data.n0 >= 10) /\ (data.n1 = 0 \/ data.n1 >= 10)
    /\ \A name \in DOMAIN data.cols :
         data.cols[name].numeric /\ 2 * data.cols[name].nulls <= data.n0 + data.n1

RangeMessages ==
    { "Feature '{feature}' has values below minimum ({min_val})",
      "Feature '{feature}' has values above maximum ({max_val})" }

\* C16: validate_training_data never accepts a table with a non-null value
\* outside its domain, rejects it with the range error once the earlier checks
\* pass, and never raises the range error for a table whose non-null values are
\* all inside their domains, however large the values of the non-pH features.
C16_TrainingRanges ==
    fn.name = "validate_training_data" =>
        /\ OutOfDomain(fn.arg) => fn.value # NoError
        /\ (OutOfDomain(fn.arg) /\ PreRangeChecksPass(fn.arg))
              => fn.value.msg \in RangeMessages
        /\ ~OutOfDomain(fn.arg) => fn.value.msg \notin RangeMessages
        /\ (~OutOfDomain(fn.arg) /\ PreRangeChecksPass(fn.arg)) => fn.value = NoError

\* C16 witness: a table with Hardness up to 500000.0 and pH up to 14.0 passes
C16_LargeValuesAccepted ==
    /\ fn.name = "validate_training_data"
    /\ fn.arg.cols["Hardness"].max = 5000000
    /\ fn.arg.cols["pH"].max = 140
    /\ fn.value = NoError

\* C17: validate_inference_data fails exactly when the row's width differs from
\* the number of feature names, or a value is NaN or infinite, or a value is
\* below 0; values above the typical maximum do not make it fail.
C17_InferenceValidation ==
    fn.name = "validate_inference_data" =>
        LET x == fn.arg.features
            bad == \/ Len(x) # Len(fn.arg.feature_names)
                   \/ \E i \in 1..Len(x) : x[i] \in {NaN, PosInf, NegInf}
                   \/ \E i \in 1..Len(x) : x[i] < 0
        IN  (fn.value # NoError) <=> bad

\* C17 witness: pH 15.0, Hardness 2000.0 and Turbidity 25.0, all above their
\* typical maxima, pass and are logged as warnings
C17_AboveTypicalAccepted ==
    /\ fn.name = "validate_inference_data"
    /\ fn.arg.features = <<150, 20000, 200000, 70, 3000, 5000, 150, 800, 250>>
    /\ inference_warnings(fn.arg.features) = {1, 2, 9}
    /\ fn.value = NoError

\* C18: while the trainer's model or scaler is unset, no step writes model.pkl,
\* scaler.pkl or features.pkl or enters the writing part of save_model, and a
\* save_model call ends as failed.
C18_SaveUnsetWritesNothing ==
    [][ (tr.model = NoneObj \/ tr.scaler = NoneObj) =>
          /\ disk' = disk
          /\ tr'.pc = "idle"
          /\ tr'.saved # tr.saved => tr'.saved = "failed" ]_vars

\* C18 witness: save_model has failed on a trainer that has a fitted scaler but
\* no model, and the directory is still empty
C18_SaveFailedWithoutModel ==
    /\ tr.saved = "failed" /\ tr.pc = "idle"
    /\ tr.model = NoneObj /\ tr.scaler = StandardScaler(2)
    /\ disk.model.st = "absent" /\ disk.scaler.st = "absent"
    /\ disk.features.st = "absent"

\* C19: every load_model that returns True has installed a classifier and a
\* scaler of one training run, whenever it runs relative to a save_model.
C19_LoadInstallsOneRun ==
    (ld.pc = "done" /\ ld.ret) =>
        SamePair(heap[ld.self].scaler, heap[ld.self].model)

FullStages == <<"load_data", "preprocess_data", "train_model">>

\* C20: in a train_from_file call a failing load_data ends the call with its
\* error and nothing written; a stage runs only on a table that load_data read
\* and validated; and an artifact file changes only in the save_model of a call
\* whose load_data, preprocess_data and train_model have completed in that order.
C20_PersistOnlyAfterAllStages ==
    /\ [] /\ tr.pipe \in {"t266", "t266s", "returned"} => tr.stages = FullStages
          /\ tr.pipe \in {"t259", "t260"} => Len(tr.stages) = IF tr.pipe = "t259" THEN 0 ELSE 1
          /\ \E n \in 0..3 : tr.stages = SubSeq(FullStages, 1, n)
          /\ tr.stages # <<>> =>
               /\ tr.file \in ReadableFiles
               /\ validate_training_data(DataFile(tr.file), CanonicalNames) = NoError
          /\ (tr.pipe = "raised" /\ tr.stages = <<>>) => tr.err # NoError
    /\ [][ /\ (~PipeIdle(tr) /\ disk' # disk) =>
                (tr.stages = FullStages /\ tr.pipe = "t266s")
           /\ (tr.pipe = "t259" /\ tr'.pipe # "t260") =>
                /\ tr'.pipe = "raised" /\ tr'.err # NoError
                /\ disk' = disk
                /\ tr'.model = tr.model /\ tr'.scaler = tr.scaler ]_vars

\* C20 witness: load_data rejected a table with pH above 14, train_from_file
\* raised, and the directory is still empty
C20_ValidationFailureAborts ==
    /\ tr.pipe = "raised" /\ tr.stages = <<>>
    /\ tr.file = "ph_high"
    /\ tr.err.msg = "Feature '{feature}' has values above maximum ({max_val})"
    /\ tr.model = NoneObj /\ tr.scaler = NoneObj
    /\ disk.model.st = "absent" /\ disk.scaler.st = "absent"
    /\ disk.features.st = "absent"

\* C21: once train_model has completed, train_from_file does not raise: it
\* returns with model_saved equal to what save_model returned, and model_saved
\* is true only when model.pkl, scaler.pkl and features.pkl hold the trainer's
\* model, scaler and feature names.
C21_SaveOutcomeReported ==
    [][ /\ tr.pipe \in {"t266", "t266s"} => tr'.pipe \in {"t266", "t266s", "returned"}
        /\ (tr.pipe = "t266s" /\ tr'.pipe = "returned") =>
              /\ tr.stages = FullStages
              /\ tr.saved \in {"saved", "failed"}
              /\ tr'.model_saved <=> (tr.saved = "saved")
              /\ tr'.model_saved =>
                   /\ disk.model = File("ok", tr.model)
                   /\ disk.scaler = File("ok", tr.scaler)
                   /\ disk.features = NamesFile("ok", tr.feature_names) ]_vars

\* C21 witness: train_from_file returned with model_saved false after a
\* save_model that wrote model.pkl and failed on scaler.pkl
C21_ReturnedUnsaved ==
    /\ tr.pipe = "returned" /\ ~tr.model_saved
    /\ tr.stages = FullStages /\ tr.saved = "failed"
    /\ tr.err = NoError
    /\ disk.model = File("ok", tr.model)
    /\ disk.scaler = CorruptFile

\* messages that contain "not available"
NotAvailableMessages == {"Predictor not available"}

\* C25: with the global predictor unset, POST /predict and POST /predict/batch
\* answer 503 with a message containing "not available".
C25_UnsetPredictorAnswers503 ==
    (cl.pc = "done" /\ cl.kind \in {"predict", "predict_batch"}
        /\ cl.out.status = "unavailable") =>
        /\ response(cl).status_code = 503
        /\ response(cl).message \in NotAvailableMessages

\* messages that contain "too large"
TooLargeMessages == {"Batch size too large (maximum 100 samples)"}

\* C26: POST /predict/batch with more than 100 samples answers 400 with a
\* message containing "too large", and computes no prediction.
C26_OversizeBatchAnswers400 ==
    (cl.pc = "done" /\ cl.kind = "predict_batch" /\ cl.self # 0
        /\ Len(cl.batch) > BATCH_LIMIT) =>
        /\ cl.results = <<>> /\ cl.used = <<>>
        /\ response(cl).status_code = 400
        /\ response(cl).message \in TooLargeMessages

\* C24: for F1 values in [0,1] the overfitting score is
\* max(0, (train_F1 - test_F1) / train_F1), and 0 when train_F1 is 0; it is 0
\* when the two are equal, lies in [0,1], does not decrease as test_F1
\* decreases, and is 1 at test_F1 = 0 for a positive train_F1.
C24_OverfittingScore ==
    fn.name = "_calculate_overfitting" =>
        LET t == fn.arg.train_f1
            s == fn.arg.f1
            score == fn.value
        IN  /\ t = RZero => score = RZero
            /\ t # RZero =>
                 score = (IF RLe(t, s) THEN RZero
                          ELSE Frac(t[1] * s[2] - s[1] * t[2], t[1] * s[2]))
            /\ t = s => score = RZero
            /\ RLe(RZero, score) /\ RLe(score, ROne)
            /\ \A lower \in F1Values :
                 RLe(lower, s) =>
                    RLe(score, calculate_overfitting([train_f1 |-> t, f1 |-> lower]))
            /\ (t # RZero /\ s = RZero) => score = ROne

\* C24 witness: a test F1 above the train F1, where only the clamp gives 0
C24_TestAboveTrain ==
    /\ fn.name = "_calculate_overfitting"
    /\ fn.arg.train_f1 = Frac(1, 2) /\ fn.arg.f1 = Frac(4, 5)
    /\ fn.value = RZero

\* C27: every probability in [0,1] is counted in exactly one bucket, so the
\* bucket populations add up to the number of samples.
C27_EveryProbabilityInOneBucket ==
    fn.name = "calculate_calibration_metrics" =>
        LET y_proba == fn.arg.y_proba
            n_bins == fn.arg.n_bins
        IN  /\ \A i \in 1..Len(y_proba) :
                 Cardinality({ k \in 1..n_bins :
                     i \in in_bin(y_proba, bin_boundaries(n_bins)[k],
                                  bin_boundaries(n_bins)[k + 1]) }) = 1
            /\ BinSum([k \in 1..n_bins |-> Frac(fn.value.in_bin[k], 1)],
                      1..n_bins, n_bins) = Frac(Len(y_proba), 1)

\* the version and feature names get_model_info reports for engine e
Reported(e) == [model_version |-> e.model_version, feature_names |-> e.feature_names]

\* C22: a reload that replaces a loaded engine by one loaded from a newly
\* trained, successfully saved artifact changes the version/feature_names
\* that get_model_info reports.
C22_ReloadChangesReport ==
    [][ ( /\ predictor # 0 /\ predictor' # predictor
          /\ heap[predictor].is_loaded /\ heap'[predictor'].is_loaded
          /\ tr.saved = "saved" /\ tr.model.run > 1
          /\ heap'[predictor'].model = tr.model
          /\ heap'[predictor'].scaler = tr.scaler
          /\ heap'[predictor'].feature_names = tr.feature_names
          /\ heap[predictor].model # tr.model )
        => Reported(heap'[predictor']) # Reported(heap[predictor]) ]_vars

\* C23: a save_model that returns True has written the trainer's classifier,
\* scaler and feature names; a fresh engine constructed on that directory is
\* loaded and holds exactly these three, and every prediction it answers is the
\* one the saved scaler and classifier give for that input.
C23_RoundTrip ==
    /\ [] ( /\ predictor # 0 =>
                heap[predictor] = Engine(disk.model.obj, disk.scaler.obj,
                                         disk.features.names, "1.0.0", TRUE)
            /\ (cl.pc = "done" /\ cl.kind = "predict" /\ cl.out.status = "ok") =>
                LET z == transform(disk.scaler.obj, to_array(cl.batch[1].vals))
                IN  cl.out.results =
                      << PredictionOutput(model_predict(disk.model.obj, z),
                                          model_predict_proba(disk.model.obj, z),
                                          "1.0.0", disk.features.names) >> )
    /\ [][ (tr.pc = "s210" /\ tr'.saved = "saved") =>
              disk' = [ model |-> File("ok", tr.model),
                        scaler |-> File("ok", tr.scaler),
                        features |-> NamesFile("ok", tr.feature_names) ] ]_vars

\* C23 witness: the fresh engine holds the forest and scaler of the new run and
\* has answered a prediction with them
C23_FreshEngineAnswers ==
    /\ predictor # 0 /\ heap[predictor].is_loaded
    /\ heap[predictor].model = RandomForest(2, <<0, 1>>)
    /\ heap[predictor].scaler = StandardScaler(2)
    /\ cl.pc = "done" /\ cl.kind = "predict" /\ cl.out.status = "ok"
    /\ cl.out.results[1].prediction = 1

\* C28: in every result the label agrees with the probability of the positive
\* class: prediction = 1 implies probability >= 0.5 and prediction = 0 implies
\* probability <= 0.5.
C28_LabelAgreesWithProbability ==
    (cl.pc = "done" /\ cl.kind \in {"predict", "predict_batch"}) =>
        \A k \in 1..Len(cl.out.results) :
            LET r == cl.out.results[k]
            IN  /\ r.prediction = 1 => 2 * r.probability >= ONE
                /\ r.prediction = 0 => 2 * r.probability <= ONE

\* C29: between calls, the live engine has model_version "fallback-1.0.0"
\* exactly when its classifier is the MockModel, and get_model_info reports
\* model_loaded = true exactly when its classifier is not the MockModel.
C29_VersionTellsFallback ==
    (predictor # 0 /\ ld.pc = "idle") =>
        LET e == heap[predictor]
        IN  /\ (e.model_version = "fallback-1.0.0") <=> (e.model = MockModel)
            /\ e.is_loaded <=> (e.model # MockModel)

\* C30: whenever save_model is writing artifact files, the classifier and the
\* scaler it writes are those of one training run.
C30_SaveWritesOneRun ==
    tr.pc \in {"s202", "s203", "s210"} =>
        /\ tr.model.kind = "RandomForestClassifier"
        /\ tr.scaler.kind = "StandardScaler"
        /\ tr.scaler.run = tr.model.run

====
